---- MODULE Spec2Model ----
(***************************************************************************)
(* Model of stock_chart_pro.py: the series normalizer                      *)
(* (fix_dataframe_columns, download_stock_data), the indicator engine      *)
(* (calculate_sma, calculate_ema, calculate_bollinger_bands,               *)
(* calculate_rsi, calculate_macd), the chart requests, the summaries and   *)
(* the menu loop of main; next to it the interval prompt of                *)
(* stock_chart_advanced.py.                                                *)
(*                                                                         *)
(* Floating-point values are modelled exactly: a finite value is a number  *)
(* q + c*sqrt(r) with q, c rational and r a squarefree integer, next to    *)
(* the IEEE specials NaN, +inf and -inf.  Rounding is not modelled.        *)
(***************************************************************************)
EXTENDS Integers, Sequences, FiniteSets, TLC

\* ------------------------------------------------------------------ bounds
MaxLen == 4          \* longest Close series handed to an indicator
MaxMacdSpan == 2     \* largest fast/slow/signal span tried for MACD
MaxRows == 2         \* most rows of a provider table
MaxCols == 3         \* most columns of a provider table
MaxSummaryRows == 2  \* most rows of a table handed to a summary
MaxParts == 2        \* most comma-separated parts of an indicator answer
MaxIndicators == 5   \* longest indicator list handed to add_indicators

Prices == {1, 2, 3}                 \* Close values of the series
Windows == 1 .. (MaxLen + 1)        \* windows, one longer than any series
MacdSpans == 1 .. MaxMacdSpan
NumStds == {1, 2}                   \* num_std (default 2)

VARIABLES
    data,     \* the normalized table handed to the indicator engine
    call,     \* the indicator call made on data: function and arguments
    out,      \* the tuple of series that call returned
    raw,      \* what the provider answers: a table, or an exception
    fixed,    \* the outputs of fix_dataframe_columns: of the table, then of its own output
    dl,       \* Some(<<data, error>>) once download_stock_data returned
    pc,             \* where main stands: the prompt it waits at, or its end
    current_theme,  \* main's current_theme
    req,            \* the settings gathered for the request under way
    fetched,        \* the download_stock_data calls of the request, in order
    effects,        \* what the request has drawn, saved and printed
    invoked,        \* the summary or prompt function called, with its arguments
    returned        \* what that function printed or returned

sessionVars == <<pc, current_theme, req, fetched, effects>>
fnVars == <<invoked, returned>>
vars == <<data, call, out, raw, fixed, dl, sessionVars, fnVars>>

\* main is not running
SessionOff ==
    /\ pc = "off"
    /\ current_theme = "dark"
    /\ req = <<>>
    /\ fetched = <<>>
    /\ effects = <<>>

\* no function has been called
FnOff == invoked = [fn |-> "none", args |-> <<>>] /\ returned = <<>>

\* ------------------------------------------------- Python None / a value
None == <<>>
Some(x) == <<x>>

\* ------------------------------------------------------ exact rationals
Abs(n) == IF n < 0 THEN -n ELSE n

RECURSIVE GCD(_, _)
GCD(a, b) == IF b = 0 THEN a ELSE GCD(b, a % b)

\* the rational n/d (d # 0) in lowest terms with a positive denominator
Q(n, d) ==
    LET s == IF d < 0 THEN -1 ELSE 1
        g == GCD(Abs(n), Abs(d))
    IN  <<(s * n) \div g, (s * d) \div g>>

Zero == <<0, 1>>
QInt(n) == <<n, 1>>
QNeg(a) == <<-a[1], a[2]>>
QAdd(a, b) == Q(a[1] * b[2] + b[1] * a[2], a[2] * b[2])
QSub(a, b) == QAdd(a, QNeg(b))
QMul(a, b) == Q(a[1] * b[1], a[2] * b[2])
QDiv(a, b) == Q(a[1] * b[2], a[2] * b[1])
QSign(a) == IF a[1] > 0 THEN 1 ELSE IF a[1] < 0 THEN -1 ELSE 0

\* ------------------------------------------------------- float values
\* <<tag, q, c, r>>: tag "fin" is q + c*sqrt(r) (c = 0 and r = 0 for a
\* rational); tag "inf" keeps its sign in q; tag "nan" is not-a-number.
NaN == <<"nan", Zero, Zero, 0>>
Inf(s) == <<"inf", QInt(s), Zero, 0>>
Fin(q) == <<"fin", q, Zero, 0>>
Float(n) == Fin(QInt(n))

IsNaN(x) == x[1] = "nan"
IsInf(x) == x[1] = "inf"
IsFin(x) == x[1] = "fin"
IsRational(x) == IsFin(x) /\ x[4] = 0

\* a value outside the modelled number field: evaluating it stops TLC
Unrepresentable(x) == CHOOSE v \in {} : v = x

Mk(q, c, r) ==
    IF c[1] = 0 \/ r = 0 THEN Fin(q)
    ELSE IF r = 1 THEN Fin(QAdd(q, c))
    ELSE <<"fin", q, c, r>>

\* the common radicand of two finite values
Rad(x, y) ==
    IF x[4] = 0 THEN y[4]
    ELSE IF y[4] = 0 \/ y[4] = x[4] THEN x[4]
    ELSE Unrepresentable(<<x, y>>)

\* sign of a value: -1, 0 or 1 (0 for NaN)
FSign(x) ==
    IF IsNaN(x) THEN 0
    ELSE IF IsInf(x) THEN x[2][1]
    ELSE LET sq == QSign(x[2])
             sc == QSign(x[3])
         IN  IF sc = 0 THEN sq
             ELSE IF sq = 0 \/ sq = sc THEN sc
             ELSE sq * QSign(QSub(QMul(x[2], x[2]),
                                  QMul(QMul(x[3], x[3]), QInt(x[4]))))

FNeg(x) ==
    IF IsNaN(x) THEN NaN
    ELSE IF IsInf(x) THEN Inf(-x[2][1])
    ELSE Mk(QNeg(x[2]), QNeg(x[3]), x[4])

FAdd(x, y) ==
    IF IsNaN(x) \/ IsNaN(y) THEN NaN
    ELSE IF IsInf(x) /\ IsInf(y) THEN (IF x = y THEN x ELSE NaN)
    ELSE IF IsInf(x) THEN x
    ELSE IF IsInf(y) THEN y
    ELSE Mk(QAdd(x[2], y[2]), QAdd(x[3], y[3]), Rad(x, y))

FSub(x, y) == FAdd(x, FNeg(y))

FMul(x, y) ==
    IF IsNaN(x) \/ IsNaN(y) THEN NaN
    ELSE IF IsInf(x) \/ IsInf(y) THEN
        (IF FSign(x) * FSign(y) = 0 THEN NaN ELSE Inf(FSign(x) * FSign(y)))
    ELSE LET r == Rad(x, y)
         IN  Mk(QAdd(QMul(x[2], y[2]), QMul(QMul(x[3], y[3]), QInt(r))),
                QAdd(QMul(x[2], y[3]), QMul(x[3], y[2])),
                r)

\* IEEE division: x/0 is +-inf (NaN for 0/0), x/inf is 0, never an exception
FDiv(x, y) ==
    IF IsNaN(x) \/ IsNaN(y) THEN NaN
    ELSE IF IsInf(x) THEN
        (IF IsInf(y) THEN NaN
         ELSE Inf(x[2][1] * (IF FSign(y) < 0 THEN -1 ELSE 1)))
    ELSE IF IsInf(y) THEN Float(0)
    ELSE IF FSign(y) = 0 THEN
        (IF FSign(x) = 0 THEN NaN ELSE Inf(FSign(x)))
    ELSE LET n == QSub(QMul(y[2], y[2]), QMul(QMul(y[3], y[3]), QInt(y[4])))
         IN  FMul(x, Mk(QDiv(y[2], n), QNeg(QDiv(y[3], n)), y[4]))

\* comparisons: every comparison with NaN is false
FGt(x, y) == ~IsNaN(x) /\ ~IsNaN(y) /\ FSign(FSub(x, y)) > 0
FLt(x, y) == FGt(y, x)
FLe(x, y) == ~IsNaN(x) /\ ~IsNaN(y) /\ (x = y \/ FSign(FSub(x, y)) < 0)

\* the largest s with s*s dividing m, searched upwards from s
RECURSIVE SquarePart(_, _, _)
SquarePart(m, s, best) ==
    IF s * s > m THEN best
    ELSE SquarePart(m, s + 1, IF m % (s * s) = 0 THEN s ELSE best)

\* square root of a rational value: sqrt(n/d) = (s/d) * sqrt(n*d / s^2)
FSqrt(x) ==
    IF IsNaN(x) \/ FSign(x) < 0 THEN NaN
    ELSE IF IsInf(x) THEN x
    ELSE IF ~IsRational(x) THEN Unrepresentable(x)
    ELSE LET m == x[2][1] * x[2][2]
             s == SquarePart(m, 1, 1)
         IN  Mk(Zero, Q(s, x[2][2]), m \div (s * s))

\* ------------------------------------------------------------- tables
\* A DataFrame: columns is the sequence of column labels, a label being the
\* tuple of its level values (<<"Close">> flat, <<"Close", "VOO">> in a
\* two-level MultiIndex); index is the row index; values[r][c] is a cell.
Table(columns, index, values) ==
    [columns |-> columns, index |-> index, values |-> values]

NumRows(df) == Len(df.index)
NumCols(df) == Len(df.columns)

\* df.empty: some axis has length 0
IsEmpty(df) == NumRows(df) = 0 \/ NumCols(df) = 0

\* isinstance(df.columns, pd.MultiIndex)
IsMultiIndex(df) == \E c \in 1 .. NumCols(df) : Len(df.columns[c]) > 1

\* the positions of the columns that df[name] selects (outer level = name)
ColumnPositions(df, name) ==
    {c \in 1 .. NumCols(df) : df.columns[c][1] = name}

Min(S) == CHOOSE x \in S : \A y \in S : x <= y

\* close = data['Close']; if isinstance(close, pd.DataFrame):
\*     close = close.iloc[:, 0]
\* the cells of the first column named so, as float values
GetColumn(df, name) ==
    LET c == Min(ColumnPositions(df, name))
    IN  [r \in 1 .. NumRows(df) |-> Float(df.values[r][c])]

\* ------------------------------------------------------ series helpers
\* Series.diff(): the first point has no predecessor
Diff(s) ==
    [i \in 1 .. Len(s) |-> IF i = 1 THEN NaN ELSE FSub(s[i], s[i - 1])]

\* sum of the non-NaN points of s at the positions lo..hi
RECURSIVE SumObs(_, _, _)
SumObs(s, lo, hi) ==
    IF lo > hi THEN Float(0)
    ELSE IF IsNaN(s[hi]) THEN SumObs(s, lo, hi - 1)
    ELSE FAdd(SumObs(s, lo, hi - 1), s[hi])

\* first position of the trailing window that ends at i
WinLo(i, window) == IF i - window + 1 < 1 THEN 1 ELSE i - window + 1

\* number of non-NaN points of s in the trailing window that ends at i
NObs(s, i, window) ==
    Cardinality({j \in WinLo(i, window) .. i : ~IsNaN(s[j])})

\* a plausible slip: min_periods=1, a mean over the partial window
RollingMeanPartial(s, window) ==
    [i \in 1 .. Len(s) |->
        FDiv(SumObs(s, WinLo(i, window), i), Float(NObs(s, i, window)))]

\* Series.rolling(window=window).mean(): min_periods defaults to window, so
\* a point whose window holds fewer than window observations is NaN
RollingMean(s, window) ==
    [i \in 1 .. Len(s) |->
        IF NObs(s, i, window) < window THEN NaN
        ELSE FDiv(SumObs(s, WinLo(i, window), i), Float(NObs(s, i, window)))]

\* sum over lo..hi of the squared differences from m (non-NaN points)
RECURSIVE SumSqDev(_, _, _, _)
SumSqDev(s, lo, hi, m) ==
    IF lo > hi THEN Float(0)
    ELSE IF IsNaN(s[hi]) THEN SumSqDev(s, lo, hi - 1, m)
    ELSE FAdd(SumSqDev(s, lo, hi - 1, m),
              FMul(FSub(s[hi], m), FSub(s[hi], m)))

\* Series.rolling(window=window).std(): sample deviation (ddof = 1), NaN
\* until the window is full and whenever it holds a single observation
RollingStd(s, window) ==
    [i \in 1 .. Len(s) |->
        LET n == NObs(s, i, window)
            lo == WinLo(i, window)
            m == FDiv(SumObs(s, lo, i), Float(n))
        IN  IF n < window \/ n <= 1 THEN NaN
            ELSE FSqrt(FDiv(SumSqDev(s, lo, i, m), Float(n - 1)))]

\* pointwise arithmetic of two aligned series, and scaling by a number
SeriesAdd(a, b) == [i \in 1 .. Len(a) |-> FAdd(a[i], b[i])]
SeriesSub(a, b) == [i \in 1 .. Len(a) |-> FSub(a[i], b[i])]
SeriesDiv(a, b) == [i \in 1 .. Len(a) |-> FDiv(a[i], b[i])]
SeriesScale(a, k) == [i \in 1 .. Len(a) |-> FMul(a[i], Float(k))]

\* one step of the exponentially weighted mean: the state is
\* <<weighted, old_wt>>, cur the next point (ignore_na = False)
EwmStep(st, cur, alpha, adjust) ==
    LET weighted == st[1]
        old_wt == FMul(st[2], FSub(Float(1), alpha))
        new_wt == IF adjust THEN Float(1) ELSE alpha
    IN  IF IsNaN(weighted) THEN <<cur, st[2]>>
        ELSE IF IsNaN(cur) THEN <<weighted, old_wt>>
        ELSE <<IF weighted # cur
                 THEN FDiv(FAdd(FMul(old_wt, weighted), FMul(new_wt, cur)),
                           FAdd(old_wt, new_wt))
                 ELSE weighted,
               IF adjust THEN FAdd(old_wt, new_wt) ELSE Float(1)>>

\* a plausible slip: the average starts from 0 instead of the first point
RECURSIVE EwmStatesZeroSeed(_, _, _, _)
EwmStatesZeroSeed(s, n, alpha, adjust) ==
    IF n = 0 THEN <<>>
    ELSE IF n = 1 THEN <<<<FMul(alpha, s[1]), Float(1)>>>>
    ELSE LET prev == EwmStatesZeroSeed(s, n - 1, alpha, adjust)
         IN  Append(prev, EwmStep(prev[n - 1], s[n], alpha, adjust))

\* the states after each of the first n points of s: the first point seeds
\* the average
RECURSIVE EwmStates(_, _, _, _)
EwmStates(s, n, alpha, adjust) ==
    IF n = 0 THEN <<>>
    ELSE IF n = 1 THEN <<<<s[1], Float(1)>>>>
    ELSE LET prev == EwmStates(s, n - 1, alpha, adjust)
         IN  Append(prev, EwmStep(prev[n - 1], s[n], alpha, adjust))

\* Series.ewm(span=span, adjust=adjust).mean(): alpha = 2/(span+1),
\* min_periods = 0, so every point from the first observation on is defined
Ewm(s, span, adjust) ==
    LET alpha == FDiv(Float(2), Float(span + 1))
        states == EwmStates(s, Len(s), alpha, adjust)
    IN  [i \in 1 .. Len(s) |-> states[i][1]]

\* ------------------------------------------------ technical indicators
\* a plausible slip: rolling(window, min_periods=1)
calculate_sma_partial(df, window) ==
    RollingMeanPartial(GetColumn(df, "Close"), window)

calculate_sma(df, window) == RollingMean(GetColumn(df, "Close"), window)

\* a plausible slip: adjust left at its default (True)
calculate_ema_adjusted(df, window) == Ewm(GetColumn(df, "Close"), window, TRUE)

calculate_ema(df, window) == Ewm(GetColumn(df, "Close"), window, FALSE)

\* a plausible slip: num_std left out of the lower band
calculate_bollinger_bands_lopsided(df, window, num_std) ==
    LET sma == calculate_sma(df, window)
        std == RollingStd(GetColumn(df, "Close"), window)
    IN  <<SeriesAdd(sma, SeriesScale(std, num_std)), sma, SeriesSub(sma, std)>>

calculate_bollinger_bands(df, window, num_std) ==
    LET sma == calculate_sma(df, window)
        std == RollingStd(GetColumn(df, "Close"), window)
        upper_band == SeriesAdd(sma, SeriesScale(std, num_std))
        lower_band == SeriesSub(sma, SeriesScale(std, num_std))
    IN  <<upper_band, sma, lower_band>>

\* gain: delta.where(delta > 0, 0); loss: -delta.where(delta < 0, 0)
\* a plausible slip: delta.clip(lower=0), which keeps the missing first delta
GainsClipped(delta) ==
    [i \in 1 .. Len(delta) |->
        IF IsNaN(delta[i]) THEN NaN
        ELSE IF FGt(delta[i], Float(0)) THEN delta[i] ELSE Float(0)]

Gains(delta) ==
    [i \in 1 .. Len(delta) |->
        IF FGt(delta[i], Float(0)) THEN delta[i] ELSE Float(0)]
\* a plausible slip: the loss kept with its negative sign
LossesSigned(delta) ==
    [i \in 1 .. Len(delta) |->
        IF FLt(delta[i], Float(0)) THEN delta[i] ELSE Float(0)]
Losses(delta) ==
    [i \in 1 .. Len(delta) |->
        FNeg(IF FLt(delta[i], Float(0)) THEN delta[i] ELSE Float(0))]

\* a plausible slip: the algebraically equal form 100 * rs / (1 + rs)
RsiOfRatio(rs) ==
    [i \in 1 .. Len(rs) |->
        FDiv(FMul(Float(100), rs[i]), FAdd(Float(1), rs[i]))]

\* rsi = 100 - (100 / (1 + rs)), pointwise
RsiOf(rs) ==
    [i \in 1 .. Len(rs) |->
        FSub(Float(100), FDiv(Float(100), FAdd(Float(1), rs[i])))]

\* the two rolling averages inside calculate_rsi
average_gain(df, window) ==
    RollingMean(Gains(Diff(GetColumn(df, "Close"))), window)
average_loss(df, window) ==
    RollingMean(Losses(Diff(GetColumn(df, "Close"))), window)

calculate_rsi(df, window) ==
    LET delta == Diff(GetColumn(df, "Close"))
        gain == RollingMean(Gains(delta), window)
        loss == RollingMean(Losses(delta), window)
        rs == SeriesDiv(gain, loss)
    IN  RsiOf(rs)

\* a plausible slip: the signal line smooths Close instead of macd_line
calculate_macd_signal_of_close(df, fast, slow, signal) ==
    LET close == GetColumn(df, "Close")
        macd_line == SeriesSub(Ewm(close, fast, FALSE), Ewm(close, slow, FALSE))
        signal_line == Ewm(close, signal, FALSE)
    IN  <<macd_line, signal_line, SeriesSub(macd_line, signal_line)>>

calculate_macd(df, fast, slow, signal) ==
    LET close == GetColumn(df, "Close")
        ema_fast == Ewm(close, fast, FALSE)
        ema_slow == Ewm(close, slow, FALSE)
        macd_line == SeriesSub(ema_fast, ema_slow)
        signal_line == Ewm(macd_line, signal, FALSE)
        histogram == SeriesSub(macd_line, signal_line)
    IN  <<macd_line, signal_line, histogram>>

\* ------------------------------------------------- series normalizer
\* expected_cols = ['Open', 'High', 'Low', 'Close', 'Volume']
expected_cols == <<"Open", "High", "Low", "Close", "Volume">>

\* str.lower() on the column names the model uses
Lower(name) ==
    CASE name \in {"Open", "open"} -> "open"
      [] name \in {"High", "high"} -> "high"
      [] name \in {"Low", "low"} -> "low"
      [] name \in {"Close", "close", "CLOSE"} -> "close"
      [] name \in {"Volume", "volume"} -> "volume"
      [] name \in {"Adj Close", "adj close"} -> "adj close"
      [] name \in {"Y", "y"} -> "y"
      [] name \in {"YES", "Yes", "yes"} -> "yes"
      [] name \in {"N", "n"} -> "n"
      [] OTHER -> name

\* col in df.columns, for flat columns
HasColumn(df, col) == \E c \in 1 .. NumCols(df) : df.columns[c] = <<col>>

\* df.columns.get_level_values(0): the outer level of every label
OuterLevel(df) == [c \in 1 .. NumCols(df) |-> <<df.columns[c][1]>>]

\* a plausible slip: the inner level is kept instead of the outer one
InnerLevel(df) ==
    [c \in 1 .. NumCols(df) |-> <<df.columns[c][Len(df.columns[c])]>>]

\* df.rename(columns={old: new}): every column labelled old is relabelled
Rename(df, old, new) ==
    Table([c \in 1 .. NumCols(df) |->
              IF df.columns[c] = <<old>> THEN <<new>> ELSE df.columns[c]],
          df.index, df.values)

\* a plausible slip: the last column equal up to letter case is taken
LastMatch(df, col) ==
    LET hits == {c \in 1 .. NumCols(df) :
                    Lower(df.columns[c][1]) = Lower(col)}
    IN  IF hits = {} THEN 0
        ELSE CHOOSE c \in hits : \A d \in hits : d <= c

\* for existing_col in df.columns: if existing_col.lower() == col.lower():
\* the position of the first such column, 0 when there is none
FirstMatch(df, col) ==
    LET hits == {c \in 1 .. NumCols(df) :
                    Lower(df.columns[c][1]) = Lower(col)}
    IN  IF hits = {} THEN 0 ELSE Min(hits)

\* one turn of the loop over expected_cols
FixColumn(df, col) ==
    IF HasColumn(df, col) \/ FirstMatch(df, col) = 0 THEN df
    ELSE Rename(df, df.columns[FirstMatch(df, col)][1], col)

\* the loop over expected_cols[k..]
RECURSIVE FixColumnsFrom(_, _)
FixColumnsFrom(df, k) ==
    IF k > Len(expected_cols) THEN df
    ELSE FixColumnsFrom(FixColumn(df, expected_cols[k]), k + 1)

\* a plausible slip: the rename loop run before the levels are flattened
fix_dataframe_columns_flatten_last(df) ==
    IF IsEmpty(df) THEN df
    ELSE LET g == FixColumnsFrom(df, 1)
         IN  IF IsMultiIndex(g) THEN Table(OuterLevel(g), g.index, g.values)
             ELSE g

\* a plausible slip: df.columns.get_level_values(1)
fix_dataframe_columns_inner(df) ==
    IF IsEmpty(df) THEN df
    ELSE FixColumnsFrom(
            IF IsMultiIndex(df)
            THEN Table(InnerLevel(df), df.index, df.values) ELSE df, 1)

fix_dataframe_columns(df) ==
    IF IsEmpty(df) THEN df
    ELSE FixColumnsFrom(
            IF IsMultiIndex(df)
            THEN Table(OuterLevel(df), df.index, df.values) ELSE df, 1)

\* what yf.download does: it returns a table or raises an exception
Returned(table) == [kind |-> "table", table |-> table, msg |-> ""]
Raised(msg) == [kind |-> "raise", table |-> Table(<<>>, <<>>, <<>>), msg |-> msg]

NoDataMessage == "No data available for this combination"

\* a plausible slip: the data.empty test left out
download_stock_data_unchecked(answer) ==
    IF answer.kind = "raise" THEN <<None, Some(answer.msg)>>
    ELSE <<Some(fix_dataframe_columns(answer.table)), None>>

\* download_stock_data, given the provider's answer: the pair (data, error)
download_stock_data(answer) ==
    IF answer.kind = "raise" THEN <<None, Some(answer.msg)>>
    ELSE IF IsEmpty(answer.table) THEN <<None, Some(NoDataMessage)>>
    ELSE <<Some(fix_dataframe_columns(answer.table)), None>>

\* Python truth of an optional string: None and '' are false
Truthy(opt) == opt # None /\ opt[1] # ""

\* the argument record of an indicator call; unused arguments are 0
Call(fn, window, num_std, fast, slow, signal) ==
    [fn |-> fn, window |-> window, num_std |-> num_std,
     fast |-> fast, slow |-> slow, signal |-> signal]

NoCall == Call("none", 0, 0, 0, 0, 0)

\* ------------------------------------------------ the normalizer at work
\* outer column names a provider table may carry, and its symbols
ColumnNames == {"Open", "Close", "close", "CLOSE", "Volume", "Adj Close"}
Symbols == {"VOO", "JEPI"}
Messages == {"", "HTTP Error 404"}

FlatLabels == {<<n>> : n \in ColumnNames}
MultiLabels == {<<n, t>> : n \in ColumnNames, t \in Symbols}

\* every cell carries its own position, so a moved or lost cell shows
CellAt(r, c) == r * (MaxCols + 1) + c

\* the table with these labels and n rows, indexed by the timestamps 1..n
RawTable(labels, n) ==
    Table(labels,
          [r \in 1 .. n |-> r],
          [r \in 1 .. n |-> [c \in 1 .. Len(labels) |-> CellAt(r, c)]])

LabelSeqs ==
    UNION {[1 .. k -> FlatLabels] \cup [1 .. k -> MultiLabels] : k \in 0 .. MaxCols}

InitData ==
    /\ \/ \E labels \in LabelSeqs, n \in 0 .. MaxRows :
            raw = Returned(RawTable(labels, n))
       \/ \E m \in Messages : raw = Raised(m)
    /\ fixed = None
    /\ dl = None
    /\ data = Table(<<>>, <<>>, <<>>)
    /\ call = NoCall
    /\ out = None
    /\ SessionOff
    /\ FnOff

\* fix_dataframe_columns applied to the provider's table
FixDataframeColumns ==
    /\ raw.kind = "table"
    /\ fixed = None
    /\ fixed' = Some(fix_dataframe_columns(raw.table))
    /\ UNCHANGED <<data, call, out, raw, dl, sessionVars, fnVars>>

\* download_stock_data run to its return
DownloadStockData ==
    /\ dl = None
    /\ dl' = Some(download_stock_data(raw))
    /\ UNCHANGED <<data, call, out, raw, fixed, sessionVars, fnVars>>

\* fix_dataframe_columns applied to its own output
FixDataframeColumnsAgain ==
    /\ Len(fixed) = 1
    /\ fixed' = Append(fixed, fix_dataframe_columns(fixed[1]))
    /\ UNCHANGED <<data, call, out, raw, dl, sessionVars, fnVars>>

NextData ==
    \/ FixDataframeColumns
    \/ DownloadStockData
    \/ FixDataframeColumnsAgain

SpecData == InitData /\ [][NextData]_vars

\* ------------------------------------------- the indicator engine at work
\* every Close series of length 0..MaxLen over Prices
CloseSeries == UNION {[1 .. n -> Prices] : n \in 0 .. MaxLen}

\* a normalized table around a Close series: a single Close column, or two
\* columns both named Close (data['Close'] is then a DataFrame)
CloseTable(s, dup) ==
    Table(IF dup THEN <<<<"Close">>, <<"Close">>>> ELSE <<<<"Close">>>>,
          [r \in 1 .. Len(s) |-> r],
          [r \in 1 .. Len(s) |-> IF dup THEN <<s[r], s[r] + 1>> ELSE <<s[r]>>])

InitInd ==
    /\ \E s \in CloseSeries, dup \in BOOLEAN : data = CloseTable(s, dup)
    /\ call = NoCall
    /\ out = None
    /\ raw = None
    /\ fixed = None
    /\ dl = None
    /\ SessionOff
    /\ FnOff

CallSma(window) ==
    /\ call = NoCall
    /\ call' = Call("sma", window, 0, 0, 0, 0)
    /\ out' = <<calculate_sma(data, window)>>
    /\ UNCHANGED <<data, raw, fixed, dl, sessionVars, fnVars>>

CallEma(window) ==
    /\ call = NoCall
    /\ call' = Call("ema", window, 0, 0, 0, 0)
    /\ out' = <<calculate_ema(data, window)>>
    /\ UNCHANGED <<data, raw, fixed, dl, sessionVars, fnVars>>

CallBollinger(window, num_std) ==
    /\ call = NoCall
    /\ call' = Call("bb", window, num_std, 0, 0, 0)
    /\ out' = calculate_bollinger_bands(data, window, num_std)
    /\ UNCHANGED <<data, raw, fixed, dl, sessionVars, fnVars>>

CallRsi(window) ==
    /\ call = NoCall
    /\ call' = Call("rsi", window, 0, 0, 0, 0)
    /\ out' = <<calculate_rsi(data, window)>>
    /\ UNCHANGED <<data, raw, fixed, dl, sessionVars, fnVars>>

CallMacd(fast, slow, signal) ==
    /\ call = NoCall
    /\ call' = Call("macd", 0, 0, fast, slow, signal)
    /\ out' = calculate_macd(data, fast, slow, signal)
    /\ UNCHANGED <<data, raw, fixed, dl, sessionVars, fnVars>>

NextInd ==
    \/ \E w \in Windows : CallSma(w)
    \/ \E w \in Windows : CallEma(w)
    \/ \E w \in Windows, k \in NumStds : CallBollinger(w, k)
    \/ \E w \in Windows : CallRsi(w)
    \/ \E f \in MacdSpans, sl \in MacdSpans, sg \in MacdSpans : CallMacd(f, sl, sg)

SpecInd == InitInd /\ [][NextInd]_vars

\* --------------------------------------------- claims on the indicators
\* the Close series of data as integers, read off the first column
ClosePrices == [r \in 1 .. NumRows(data) |-> data.values[r][1]]

RECURSIVE IntSum(_, _, _)
IntSum(s, lo, hi) == IF lo > hi THEN 0 ELSE s[hi] + IntSum(s, lo, hi - 1)

RECURSIVE IntSumSq(_, _, _)
IntSumSq(s, lo, hi) ==
    IF lo > hi THEN 0 ELSE s[hi] * s[hi] + IntSumSq(s, lo, hi - 1)

Defined(x) == ~IsNaN(x)
AllUndefined(s) == \A i \in 1 .. Len(s) : IsNaN(s[i])
AllDefined(s) == \A i \in 1 .. Len(s) : IsFin(s[i])
NumDefined(s) == Cardinality({i \in 1 .. Len(s) : Defined(s[i])})
Max0(n) == IF n < 0 THEN 0 ELSE n

\* C1: calculate_sma returns a series as long as Close; exactly
\* max(0, L-window+1) points are defined, those at (1-based) positions
\* >= window, and each equals the arithmetic mean of the trailing window.
C1_SmaIsTrailingMean ==
    call.fn = "sma" =>
        LET L == NumRows(data)
            w == call.window
            sma == out[1]
        IN  /\ Len(sma) = L
            /\ NumDefined(sma) = Max0(L - w + 1)
            /\ \A i \in 1 .. L :
                /\ Defined(sma[i]) <=> i >= w
                /\ i >= w =>
                     sma[i] = Fin(Q(IntSum(ClosePrices, i - w + 1, i), w))

\* C1 witness: a window of 3 over 4 points: two warm-up points, then means
\* that differ from each other
C1_Witness ==
    /\ call.fn = "sma"
    /\ call.window = 3
    /\ NumRows(data) = 4
    /\ IsNaN(out[1][2])
    /\ Defined(out[1][3])
    /\ out[1][3] # out[1][4]

\* C2 as stated: whenever an indicator's window (for MACD one of fast, slow,
\* signal) is longer than the series, every point of every returned series
\* is undefined.
C2_AllUndefinedWhenWindowTooLong ==
    LET L == NumRows(data)
        tooLong ==
            \/ call.fn \in {"sma", "ema", "bb", "rsi"} /\ call.window > L
            \/ call.fn = "macd"
                /\ (call.fast > L \/ call.slow > L \/ call.signal > L)
    IN  tooLong => \A k \in 1 .. Len(out) :
                       Len(out[k]) = L /\ AllUndefined(out[k])

\* C2 amended: with a window longer than the series, SMA, Bollinger Bands
\* and RSI return series as long as Close whose every point is undefined;
\* EMA and MACD have no warm-up: whatever the span, they return series as
\* long as Close whose every point is defined.
C2_WarmUpByIndicator ==
    LET L == NumRows(data)
    IN  /\ call.fn \in {"sma", "bb", "rsi"} /\ call.window > L =>
            \A k \in 1 .. Len(out) : Len(out[k]) = L /\ AllUndefined(out[k])
        /\ call.fn \in {"ema", "macd"} =>
            \A k \in 1 .. Len(out) : Len(out[k]) = L /\ AllDefined(out[k])

\* C2 witness: Bollinger Bands asked for a window longer than a non-empty
\* series
C2_Witness ==
    /\ call.fn = "bb"
    /\ NumRows(data) >= 2
    /\ call.window > NumRows(data)
    /\ Len(out) = 3

\* the trailing window ending at i holds no falling / no rising Close step;
\* the first point of the series has no step
NoLossIn(i, w) ==
    \A j \in WinLo(i, w) .. i :
        j > 1 => ClosePrices[j] >= ClosePrices[j - 1]
NoGainIn(i, w) ==
    \A j \in WinLo(i, w) .. i :
        j > 1 => ClosePrices[j] <= ClosePrices[j - 1]

\* C3 as stated: at every point with a full window and zero average loss,
\* RSI is not-a-number, whatever the average gain.
C3_ZeroLossIsNaN ==
    call.fn = "rsi" =>
        \A i \in call.window .. NumRows(data) :
            NoLossIn(i, call.window) => IsNaN(out[1][i])

\* C3 amended: at a point with a full window and zero average loss, RSI is
\* not-a-number when the average gain is zero too (0/0), and is 100 when
\* the average gain is positive (gain/0 = inf, 100 - 100/inf = 100).
C3_ZeroLossIsNaNOr100 ==
    call.fn = "rsi" =>
        \A i \in call.window .. NumRows(data) :
            NoLossIn(i, call.window) =>
                out[1][i] = IF NoGainIn(i, call.window) THEN NaN
                            ELSE Float(100)

\* C3 witness: one RSI series with a flat full window (NaN) and a rising
\* full window without loss (100)
C3_Witness ==
    /\ call.fn = "rsi"
    /\ call.window = 2
    /\ ClosePrices = <<1, 1, 2, 1>>
    /\ IsNaN(out[1][2])
    /\ out[1][3] = Float(100)

\* C4: every defined RSI point whose trailing window has a non-zero average
\* loss lies in [0, 100].
C4_RsiBounded ==
    call.fn = "rsi" =>
        \A i \in 1 .. NumRows(data) :
            Defined(out[1][i]) /\ ~NoLossIn(i, call.window) =>
                FLe(Float(0), out[1][i]) /\ FLe(out[1][i], Float(100))

\* C4 witness: a window with both a gain and a loss, RSI strictly inside
C4_Witness ==
    /\ call.fn = "rsi"
    /\ call.window = 3
    /\ NumRows(data) = 4
    /\ ~NoLossIn(4, 3)
    /\ FLt(Float(0), out[1][4])
    /\ FLt(out[1][4], Float(100))

\* C5: the middle band is calculate_sma(window) at every point; wherever
\* upper and lower are defined, upper - middle = middle - lower, and this
\* offset is num_std times the sample standard deviation of the window:
\* it is >= 0 and its square is num_std^2 * (w*S2 - S1^2) / (w*(w-1)).
C5_BollingerSymmetric ==
    call.fn = "bb" =>
        LET L == NumRows(data)
            w == call.window
            k == call.num_std
            upper == out[1]
            middle == out[2]
            lower == out[3]
        IN  /\ middle = calculate_sma(data, w)
            /\ \A i \in 1 .. L :
                 Defined(upper[i]) /\ Defined(lower[i]) =>
                    LET up == FSub(upper[i], middle[i])
                        s1 == IntSum(ClosePrices, i - w + 1, i)
                        s2 == IntSumSq(ClosePrices, i - w + 1, i)
                    IN  /\ i >= w /\ w >= 2
                        /\ up = FSub(middle[i], lower[i])
                        /\ FSign(up) >= 0
                        /\ FMul(up, up)
                             = Fin(Q(k * k * (w * s2 - s1 * s1), w * (w - 1)))

\* C5 witness: bands of width 2 sigma around a window that is not constant
C5_Witness ==
    /\ call.fn = "bb"
    /\ call.num_std = 2
    /\ call.window = 3
    /\ NumRows(data) = 4
    /\ Defined(out[1][4])
    /\ out[1][4] # out[3][4]

\* the smoothing factor 2/(span+1)
Alpha(span) == Fin(Q(2, span + 1))

\* s follows the EMA recurrence over the series x
FollowsRecurrence(s, x, span) ==
    /\ Len(s) = Len(x)
    /\ Len(x) >= 1 => s[1] = x[1]
    /\ \A t \in 2 .. Len(x) :
         s[t] = FAdd(FMul(Alpha(span), x[t]),
                     FMul(FSub(Float(1), Alpha(span)), s[t - 1]))

\* data cut down to its first n rows
FirstRows(df, n) ==
    Table(df.columns, SubSeq(df.index, 1, n), SubSeq(df.values, 1, n))

\* C6: EMA[0] = close[0], EMA[t] = a*close[t] + (1-a)*EMA[t-1] with
\* a = 2/(window+1); the EMA of the first t points alone is the first t
\* points of the EMA, so later points never change earlier values.
C6_EmaCausalRecurrence ==
    call.fn = "ema" =>
        /\ FollowsRecurrence(out[1],
                             [r \in 1 .. NumRows(data) |-> Float(ClosePrices[r])],
                             call.window)
        /\ \A t \in 0 .. NumRows(data) :
             calculate_ema(FirstRows(data, t), call.window)
                 = SubSeq(out[1], 1, t)

\* C6 witness: an EMA over a series that moves, away from the SMA seed
C6_Witness ==
    /\ call.fn = "ema"
    /\ call.window = 3
    /\ ClosePrices = <<1, 3, 2, 3>>
    /\ out[1][1] = Float(1)
    /\ out[1][2] = Float(2)

IsConstantSeries == \A r \in 1 .. NumRows(data) : ClosePrices[r] = ClosePrices[1]

\* C7: on a constant series of value c every EMA point is c and every
\* defined SMA point is c, so both agree wherever both are defined; with
\* window = L the SMA has its single defined point at the last position.
C7_ConstantSeries ==
    IsConstantSeries =>
        LET L == NumRows(data)
            w == call.window
            sma == calculate_sma(data, w)
        IN  /\ call.fn = "ema" =>
                /\ \A i \in 1 .. L : out[1][i] = Float(ClosePrices[1])
                /\ \A i \in 1 .. L : Defined(sma[i]) => out[1][i] = sma[i]
            /\ call.fn = "sma" =>
                /\ \A i \in 1 .. L :
                     Defined(out[1][i]) => out[1][i] = Float(ClosePrices[1])
                /\ w = L => NumDefined(out[1]) = 1 /\ Defined(out[1][L])

\* C7 witness: the SMA of a constant series with window = L
C7_Witness ==
    /\ IsConstantSeries
    /\ call.fn = "sma"
    /\ NumRows(data) = 3
    /\ call.window = 3
    /\ out[1][3] = Float(ClosePrices[1])
    /\ ClosePrices[1] = 2

\* C8: macd_line = EMA(fast) - EMA(slow), signal_line follows the EMA
\* recurrence of span signal over macd_line (seeded by macd_line[0]),
\* histogram = macd_line - signal_line; macd_line[0] = histogram[0] = 0.
C8_MacdLines ==
    call.fn = "macd" =>
        LET L == NumRows(data)
            macd_line == out[1]
            signal_line == out[2]
            histogram == out[3]
            ema_fast == calculate_ema(data, call.fast)
            ema_slow == calculate_ema(data, call.slow)
        IN  /\ Len(out) = 3
            /\ Len(macd_line) = L /\ Len(histogram) = L
            /\ \A i \in 1 .. L :
                 /\ macd_line[i] = FSub(ema_fast[i], ema_slow[i])
                 /\ histogram[i] = FSub(macd_line[i], signal_line[i])
            /\ FollowsRecurrence(signal_line, macd_line, call.signal)
            /\ L >= 1 => macd_line[1] = Float(0) /\ histogram[1] = Float(0)

\* C8 witness: a MACD with different fast and slow spans whose line and
\* histogram leave zero after the first point
C8_Witness ==
    /\ call.fn = "macd"
    /\ call.fast = 1 /\ call.slow = 2 /\ call.signal = 2
    /\ NumRows(data) >= 2
    /\ out[1][2] # Float(0)
    /\ out[3][2] # Float(0)

\* --------------------------------------------- claims on the normalizer
\* C9: when the provider returns a table with zero rows, download_stock_data
\* returns no series together with the NoData message, which is a true
\* value for the callers' "if error" test: no series goes on to a chart.
C9_ZeroRowsIsNoData ==
    dl # None /\ raw.kind = "table" /\ NumRows(raw.table) = 0 =>
        /\ dl[1][1] = None
        /\ dl[1][2] = Some(NoDataMessage)
        /\ Truthy(dl[1][2])

\* C9 witness: a download answered by a table with columns and no rows
C9_Witness ==
    /\ dl # None
    /\ raw.kind = "table"
    /\ NumRows(raw.table) = 0
    /\ NumCols(raw.table) = 2
    /\ dl[1][1] = None

\* the positions of the outer names equal to name up to letter case
AlikePositions(t, name) ==
    {d \in 1 .. NumCols(t) : Lower(t.columns[d][1]) = Lower(name)}

\* the name the normalizer owes column c of table t: a required name that
\* is not among the outer names goes to the columns carrying the first
\* outer name, in column order, equal to it up to letter case
OwedName(t, c) ==
    LET n == t.columns[c][1]
        owed == {k \in 1 .. Len(expected_cols) :
                    /\ \A d \in 1 .. NumCols(t) : t.columns[d][1] # expected_cols[k]
                    /\ AlikePositions(t, expected_cols[k]) # {}
                    /\ n = t.columns[Min(AlikePositions(t, expected_cols[k]))][1]}
    IN  IF owed = {} THEN n ELSE expected_cols[Min(owed)]

TwoLevelInput ==
    fixed # None /\ ~IsEmpty(raw.table) /\ IsMultiIndex(raw.table)

\* C10 as stated: a non-empty two-level table comes back with single-level
\* columns named by the outer level, in order, rows, index and cells kept.
C10_FlattenedNamesAreOuterNames ==
    TwoLevelInput =>
        LET t == raw.table
            f == fixed[1]
        IN  /\ NumCols(f) = NumCols(t)
            /\ \A c \in 1 .. NumCols(t) : f.columns[c] = <<t.columns[c][1]>>
            /\ f.index = t.index
            /\ f.values = t.values

\* C10 amended: a non-empty two-level table comes back with single-level
\* columns, in the original order, with the same rows, index and cells and
\* the inner level dropped; a column is named by its outer name, except
\* that when a required name is not among the outer names, the columns
\* carrying the first outer name equal to it up to letter case get the
\* required name.
C10_FlattenedNamesUpToCase ==
    TwoLevelInput =>
        LET t == raw.table
            f == fixed[1]
        IN  /\ NumCols(f) = NumCols(t)
            /\ \A c \in 1 .. NumCols(t) : f.columns[c] = <<OwedName(t, c)>>
            /\ NumRows(f) = NumRows(t)
            /\ f.index = t.index
            /\ f.values = t.values

\* C10 witness: (close, VOO), (Volume, VOO) with two rows comes back as
\* Close, Volume
C10_Witness ==
    /\ fixed # None
    /\ raw.kind = "table"
    /\ raw.table.columns = <<<<"close", "VOO">>, <<"Volume", "VOO">>>>
    /\ NumRows(raw.table) = 2
    /\ fixed[1].columns = <<<<"Close">>, <<"Volume">>>>
    /\ fixed[1].values = raw.table.values

\* the required names that are no outer name of t
AbsentNames(t) ==
    {k \in 1 .. Len(expected_cols) :
        \A d \in 1 .. NumCols(t) : t.columns[d][1] # expected_cols[k]}

NonEmptyInput == fixed # None /\ ~IsEmpty(raw.table)

\* C11 as stated: for each required name that is absent, the first column
\* equal to it up to letter case is renamed to it and no other column is
\* renamed; with no such column the name stays absent and a table comes
\* back.
C11_OnlyFirstMatchRenamed ==
    NonEmptyInput =>
        LET t == raw.table
            f == fixed[1]
            firsts == {Min(AlikePositions(t, expected_cols[k])) :
                          k \in {j \in AbsentNames(t) :
                                    AlikePositions(t, expected_cols[j]) # {}}}
        IN  /\ NumCols(f) = NumCols(t)
            /\ \A k \in AbsentNames(t) :
                  IF AlikePositions(t, expected_cols[k]) = {}
                  THEN \A c \in 1 .. NumCols(f) : f.columns[c] # <<expected_cols[k]>>
                  ELSE f.columns[Min(AlikePositions(t, expected_cols[k]))]
                          = <<expected_cols[k]>>
            /\ \A c \in 1 .. NumCols(t) :
                  c \notin firsts => f.columns[c] = <<t.columns[c][1]>>

\* C11 amended: for each required name that is absent from a non-empty
\* table, every column carrying the name of the first column equal to it up
\* to letter case is renamed to it (one column when names are distinct) and
\* no column carrying another name is renamed; with no such column the name
\* stays absent; a table always comes back.
C11_FirstMatchingNameRenamed ==
    NonEmptyInput =>
        LET t == raw.table
            f == fixed[1]
            FirstName(k) == t.columns[Min(AlikePositions(t, expected_cols[k]))][1]
            taken == {FirstName(k) :
                         k \in {j \in AbsentNames(t) :
                                   AlikePositions(t, expected_cols[j]) # {}}}
        IN  /\ NumCols(f) = NumCols(t)
            /\ \A k \in AbsentNames(t) :
                  IF AlikePositions(t, expected_cols[k]) = {}
                  THEN \A c \in 1 .. NumCols(f) : f.columns[c] # <<expected_cols[k]>>
                  ELSE \A c \in 1 .. NumCols(t) :
                          (t.columns[c][1] = FirstName(k))
                              <=> (f.columns[c] = <<expected_cols[k]>>)
            /\ \A c \in 1 .. NumCols(t) :
                  t.columns[c][1] \notin taken => f.columns[c] = <<t.columns[c][1]>>

\* C11 witness: CLOSE, close, CLOSE comes back as Close, close, Close, and
\* Open stays absent
C11_Witness ==
    /\ fixed # None
    /\ raw.kind = "table"
    /\ NumRows(raw.table) = 1
    /\ raw.table.columns = <<<<"CLOSE">>, <<"close">>, <<"CLOSE">>>>
    /\ fixed[1].columns = <<<<"Close">>, <<"close">>, <<"Close">>>>

\* ------------------------------------------------------- the summaries
\* n/d rounded to the nearest integer, ties to even (d > 0)
RoundHalfEven(n, d) ==
    LET q == n \div d
        r == n - q * d
    IN  IF 2 * r < d THEN q
        ELSE IF 2 * r > d THEN q + 1
        ELSE IF q % 2 = 0 THEN q ELSE q + 1

\* format(x, '.2f'): the number of hundredths printed, or nan / inf
Fmt2(x) ==
    IF IsNaN(x) THEN <<"nan", 0>>
    ELSE IF IsInf(x) THEN <<"inf", FSign(x)>>
    ELSE IF IsRational(x) THEN <<"num", RoundHalfEven(100 * x[2][1], x[2][2])>>
    ELSE Unrepresentable(x)

\* np.max and np.min of a column without NaN
FMax(s) == CHOOSE x \in {s[i] : i \in DOMAIN s} : \A i \in DOMAIN s : FLe(s[i], x)
FMin(s) == CHOOSE x \in {s[i] : i \in DOMAIN s} : \A i \in DOMAIN s : FLe(x, s[i])

\* ((close[-1] - close[0]) / close[0]) * 100
PeriodReturn(close) ==
    FMul(FDiv(FSub(close[Len(close)], close[1]), close[1]), Float(100))

\* a plausible slip: the range of the closes reported as the period range
print_summary_close_range(df) ==
    LET close_values == GetColumn(df, "Close")
    IN  [latest |-> Fmt2(close_values[Len(close_values)]),
         high |-> Fmt2(FMax(close_values)),
         low |-> Fmt2(FMin(close_values)),
         returns |-> Fmt2(PeriodReturn(close_values)),
         count |-> NumRows(df)]

\* print_summary: the five metric rows it prints for a table with rows
\* (the dividend-yield and P/E rows, taken from get_stock_info, are left out)
print_summary(df) ==
    LET close_values == GetColumn(df, "Close")
        high_values == GetColumn(df, "High")
        low_values == GetColumn(df, "Low")
    IN  [latest |-> Fmt2(close_values[Len(close_values)]),
         high |-> Fmt2(FMax(high_values)),
         low |-> Fmt2(FMin(low_values)),
         returns |-> Fmt2(PeriodReturn(close_values)),
         count |-> NumRows(df)]

\* a plausible slip: >= in place of >
print_comparison_summary_ge(voo_data, jepi_data) ==
    LET voo_close == GetColumn(voo_data, "Close")
        jepi_close == GetColumn(jepi_data, "Close")
        voo_return == PeriodReturn(voo_close)
        jepi_return == PeriodReturn(jepi_close)
        voo_wins == FGt(voo_return, jepi_return) \/ voo_return = jepi_return
    IN  [voo_latest |-> Fmt2(voo_close[Len(voo_close)]),
         jepi_latest |-> Fmt2(jepi_close[Len(jepi_close)]),
         voo_return |-> Fmt2(voo_return),
         jepi_return |-> Fmt2(jepi_return),
         winner |-> IF voo_wins THEN "VOO" ELSE "JEPI",
         margin |-> IF voo_wins THEN Fmt2(FSub(voo_return, jepi_return))
                    ELSE Fmt2(FSub(jepi_return, voo_return))]

\* print_comparison_summary: the table rows and the closing line it prints
print_comparison_summary(voo_data, jepi_data) ==
    LET voo_close == GetColumn(voo_data, "Close")
        jepi_close == GetColumn(jepi_data, "Close")
        voo_return == PeriodReturn(voo_close)
        jepi_return == PeriodReturn(jepi_close)
        voo_wins == FGt(voo_return, jepi_return)
    IN  [voo_latest |-> Fmt2(voo_close[Len(voo_close)]),
         jepi_latest |-> Fmt2(jepi_close[Len(jepi_close)]),
         voo_return |-> Fmt2(voo_return),
         jepi_return |-> Fmt2(jepi_return),
         winner |-> IF voo_wins THEN "VOO" ELSE "JEPI",
         margin |-> IF voo_wins THEN Fmt2(FSub(voo_return, jepi_return))
                    ELSE Fmt2(FSub(jepi_return, voo_return))]

\* ------------------------------------------------------ the prompts
\* input().strip().upper() on the answers tried at the menus
Upper(text) ==
    CASE text = "q" -> "Q"
      [] text = "s" -> "S"
      [] text = "b" -> "B"
      [] text = "x" -> "X"
      [] OTHER -> text

\* get_period, given the answer typed
get_period(choice) ==
    CASE choice = "1" -> "1d"
      [] choice = "2" -> "5d"
      [] choice = "3" -> "1mo"
      [] choice = "4" -> "3mo"
      [] choice = "5" -> "6mo"
      [] choice = "6" -> "1y"
      [] choice = "7" -> "2y"
      [] choice = "8" -> "5y"
      [] choice = "9" -> "10y"
      [] choice = "10" -> "max"
      [] choice = "" -> "1y"
      [] OTHER -> choice

auto_select_interval(period) ==
    IF period \in {"1d"} THEN "5m"
    ELSE IF period \in {"5d"} THEN "1h"
    ELSE IF period \in {"1mo", "3mo"} THEN "1d"
    ELSE IF period \in {"6mo", "1y", "2y"} THEN "1d"
    ELSE "1wk"

\* interval_map of stock_chart_pro.get_interval
interval_map(choice) ==
    CASE choice = "1" -> "1m"
      [] choice = "2" -> "5m"
      [] choice = "3" -> "15m"
      [] choice = "4" -> "1h"
      [] choice = "5" -> "1d"
      [] choice = "6" -> "1wk"
      [] choice = "7" -> "1mo"

IntervalMenu == {"1", "2", "3", "4", "5", "6", "7"}

\* a plausible slip: the pass-through of get_period copied to get_interval
get_interval_verbatim(period, choice) ==
    IF choice = "" THEN auto_select_interval(period)
    ELSE IF choice \in IntervalMenu THEN interval_map(choice)
    ELSE choice

\* stock_chart_pro.get_interval, given the answer typed
get_interval(period, choice) ==
    IF choice = "" THEN auto_select_interval(period)
    ELSE IF choice \in IntervalMenu THEN interval_map(choice)
    ELSE "1d"

\* interval_map of stock_chart_advanced.get_interval
advanced_interval_map(choice) ==
    CASE choice = "1" -> "1m"
      [] choice = "2" -> "5m"
      [] choice = "3" -> "15m"
      [] choice = "4" -> "30m"
      [] choice = "5" -> "1h"
      [] choice = "6" -> "1d"
      [] choice = "7" -> "1wk"
      [] choice = "8" -> "1mo"

AdvancedIntervalMenu == {"1", "2", "3", "4", "5", "6", "7", "8"}

advanced_auto_select_interval(period) ==
    IF period \in {"1d", "5d"} THEN "1h"
    ELSE IF period \in {"1mo", "3mo"} THEN "1d"
    ELSE IF period \in {"6mo", "1y", "2y"} THEN "1d"
    ELSE IF period \in {"5y", "10y", "max"} THEN "1wk"
    ELSE "1d"

\* stock_chart_advanced.get_interval, given the answer typed
advanced_get_interval(period, choice) ==
    IF choice = "" THEN advanced_auto_select_interval(period)
    ELSE IF choice \in AdvancedIntervalMenu THEN advanced_interval_map(choice)
    ELSE choice

get_chart_style(choice) ==
    CASE choice = "1" -> "line"
      [] choice = "2" -> "area"
      [] choice = "3" -> "bar"
      [] choice = "4" -> "candlestick"
      [] choice = "" -> "line"
      [] OTHER -> "line"

indicator_map(c) ==
    CASE c = "1" -> "sma20"
      [] c = "2" -> "sma50"
      [] c = "3" -> "ema20"
      [] c = "4" -> "bb"

IndicatorMenu == {"1", "2", "3", "4"}

\* get_indicators, given the answer typed as its comma-separated parts,
\* each stripped: "1,4" is <<"1", "4">> and "" is <<"">>
get_indicators(parts) ==
    IF parts = <<"">> \/ parts = <<"0">> THEN <<>>
    ELSE IF parts = <<"5">> THEN <<"sma20", "sma50", "ema20", "bb">>
    ELSE LET kept == SelectSeq(parts, LAMBDA c : c \in IndicatorMenu)
         IN  [i \in 1 .. Len(kept) |-> indicator_map(kept[i])]

\* colors = ['#ff9f43', '#ee5a24', '#5f27cd', '#10ac84'] of add_indicators
colors == <<"#ff9f43", "#ee5a24", "#5f27cd", "#10ac84">>

\* theme["accent_color"] of Config.THEMES
accent_color(theme_name) ==
    IF theme_name = "light" THEN "#e74c3c" ELSE "#ff6b6b"

\* one ax.plot or ax.fill_between call: what is drawn, over how many
\* index points, in which colour and line style
Artist(kind, label, points, color, linestyle) ==
    [kind |-> kind, label |-> label, points |-> points, color |-> color,
     linestyle |-> linestyle]

MovingAverages == {"sma20", "sma50", "ema20"}

ma_label(indicator) ==
    CASE indicator = "sma20" -> "SMA 20"
      [] indicator = "sma50" -> "SMA 50"
      [] indicator = "ema20" -> "EMA 20"

ma_linestyle(indicator) == IF indicator = "ema20" THEN "-." ELSE "--"

\* the three calls of the "bb" branch
bb_artists(points, theme_name) ==
    <<Artist("plot", "BB Upper", points, accent_color(theme_name), ":"),
      Artist("plot", "BB Lower", points, accent_color(theme_name), ":"),
      Artist("fill_between", "", points, accent_color(theme_name), "")>>

\* a plausible slip: color_idx += 1 in the "bb" branch too
RECURSIVE add_indicators_bb_advances_from(_, _, _, _, _)
add_indicators_bb_advances_from(points, indicators, theme_name, p, color_idx) ==
    IF p > Len(indicators) THEN <<>>
    ELSE IF indicators[p] \in MovingAverages
    THEN <<Artist("plot", ma_label(indicators[p]), points,
                  colors[(color_idx % Len(colors)) + 1],
                  ma_linestyle(indicators[p]))>>
         \o add_indicators_bb_advances_from(points, indicators, theme_name,
                                            p + 1, color_idx + 1)
    ELSE IF indicators[p] = "bb"
    THEN bb_artists(points, theme_name)
         \o add_indicators_bb_advances_from(points, indicators, theme_name,
                                            p + 1, color_idx + 1)
    ELSE add_indicators_bb_advances_from(points, indicators, theme_name,
                                         p + 1, color_idx)

add_indicators_bb_advances(df, indicators, theme_name) ==
    add_indicators_bb_advances_from(NumRows(df), indicators, theme_name, 1, 0)

\* the loop of add_indicators from entry p on, color_idx being its counter
RECURSIVE add_indicators_from(_, _, _, _, _)
add_indicators_from(points, indicators, theme_name, p, color_idx) ==
    IF p > Len(indicators) THEN <<>>
    ELSE IF indicators[p] \in MovingAverages
    THEN <<Artist("plot", ma_label(indicators[p]), points,
                  colors[(color_idx % Len(colors)) + 1],
                  ma_linestyle(indicators[p]))>>
         \o add_indicators_from(points, indicators, theme_name, p + 1,
                                color_idx + 1)
    ELSE IF indicators[p] = "bb"
    THEN bb_artists(points, theme_name)
         \o add_indicators_from(points, indicators, theme_name, p + 1, color_idx)
    ELSE add_indicators_from(points, indicators, theme_name, p + 1, color_idx)

\* add_indicators: the artists it adds to the axis, in drawing order
add_indicators(df, indicators, theme_name) ==
    add_indicators_from(NumRows(df), indicators, theme_name, 1, 0)

\* a plausible slip: the answer itself taken as the theme name
get_theme_verbatim(choice) == choice

get_theme(choice) == IF choice = "2" THEN "light" ELSE "dark"

\* get_save_option: the stem of the file to save (".png" is appended), the
\* stem "chart_<now>" standing for the time-stamped default
get_save_option(choice, filename) ==
    IF choice = "1"
    THEN Some(IF filename = "" THEN "chart_<now>" ELSE filename)
    ELSE None

\* a plausible slip: everything but "no" taken as consent
confirm_settings_not_no(choice) == Lower(choice) # "no"

\* confirm_settings: choice in ["", "y", "yes"] after strip().lower()
confirm_settings(choice) == Lower(choice) \in {"", "y", "yes"}

\* ------------------------------------- summaries and prompts at work
SummaryValues == {0, 1, 3}

\* a table with columns High, Low, Close and the rows given as triples
SummaryTable(rows) ==
    Table(<<<<"High">>, <<"Low">>, <<"Close">>>>,
          [r \in 1 .. Len(rows) |-> r], rows)

\* a table whose High, Low and Close are all the closes given
CloseOnly(closes) ==
    SummaryTable([r \in 1 .. Len(closes) |-> <<closes[r], closes[r], closes[r]>>])

SummaryRows == SummaryValues \X SummaryValues \X SummaryValues

\* the end-to-end series of ten closes, and the +5% / +3% comparison
ScenarioCloses == <<10, 20, 15, 25, 20, 30, 25, 35, 30, 40>>
ScenarioVoo == <<100, 105>>
ScenarioJepi == <<100, 103>>

\* the close series handed to print_comparison_summary
ComparisonCloses ==
    UNION {[1 .. n -> SummaryValues] : n \in 1 .. MaxSummaryRows}
        \cup {ScenarioVoo, ScenarioJepi}

PeriodAnswers == {"", "1", "3", "9", "100d"}
IntervalAnswers == {"", "1", "4", "7", "8", "30m", "2h"}

Invoke(fn, args) == [fn |-> fn, args |-> args]

\* the period and interval main hands on to yf.download in
\* stock_chart_pro.py, given the answers typed at the two prompts
main_provider_args(period_choice, interval_choice) ==
    LET period == get_period(period_choice)
    IN  [period |-> period, interval |-> get_interval(period, interval_choice)]

\* the same for main of stock_chart_advanced.py (its get_period has the
\* same map and pass-through)
advanced_main_provider_args(period_choice, interval_choice) ==
    LET period == get_period(period_choice)
    IN  [period |-> period,
         interval |-> advanced_get_interval(period, interval_choice)]

InitFn ==
    /\ FnOff
    /\ SessionOff
    /\ data = Table(<<>>, <<>>, <<>>)
    /\ call = NoCall
    /\ out = None
    /\ raw = None
    /\ fixed = None
    /\ dl = None

PrintSummaryOf(t) ==
    /\ invoked' = Invoke("print_summary", <<t>>)
    /\ returned' = print_summary(t)

CallPrintSummary ==
    /\ invoked.fn = "none"
    /\ \/ \E n \in 1 .. MaxSummaryRows : \E rows \in [1 .. n -> SummaryRows] :
             PrintSummaryOf(SummaryTable(rows))
       \/ PrintSummaryOf(CloseOnly(ScenarioCloses))
    /\ UNCHANGED <<data, call, out, raw, fixed, dl, sessionVars>>

CallPrintComparisonSummary ==
    /\ invoked.fn = "none"
    /\ \E v \in ComparisonCloses, j \in ComparisonCloses :
          /\ invoked' = Invoke("print_comparison_summary",
                               <<CloseOnly(v), CloseOnly(j)>>)
          /\ returned' = print_comparison_summary(CloseOnly(v), CloseOnly(j))
    /\ UNCHANGED <<data, call, out, raw, fixed, dl, sessionVars>>

\* the interval prompt of stock_chart_pro.py answered, up to yf.download
AnswerIntervalPro ==
    /\ invoked.fn = "none"
    /\ \E p \in PeriodAnswers, i \in IntervalAnswers :
          /\ invoked' = Invoke("pro", <<p, i>>)
          /\ returned' = main_provider_args(p, i)
    /\ UNCHANGED <<data, call, out, raw, fixed, dl, sessionVars>>

\* the interval prompt of stock_chart_advanced.py answered
AnswerIntervalAdvanced ==
    /\ invoked.fn = "none"
    /\ \E p \in PeriodAnswers, i \in IntervalAnswers :
          /\ invoked' = Invoke("advanced", <<p, i>>)
          /\ returned' = advanced_main_provider_args(p, i)
    /\ UNCHANGED <<data, call, out, raw, fixed, dl, sessionVars>>

\* the parts of an answer to the indicator prompt, and the lists handed
\* to add_indicators
IndicatorParts == {"", "0", "1", "2", "4", "5", "x"}
IndicatorNames == {"sma20", "sma50", "ema20", "bb"}
ThemeNames == {"dark", "light"}

CallGetIndicators ==
    /\ invoked.fn = "none"
    /\ \E n \in 1 .. MaxParts : \E parts \in [1 .. n -> IndicatorParts] :
          /\ invoked' = Invoke("get_indicators", <<parts>>)
          /\ returned' = get_indicators(parts)
    /\ UNCHANGED <<data, call, out, raw, fixed, dl, sessionVars>>

CallAddIndicators ==
    /\ invoked.fn = "none"
    /\ \E n \in 0 .. MaxIndicators : \E indicators \in [1 .. n -> IndicatorNames] :
       \E rows \in 1 .. 2, theme_name \in ThemeNames :
          /\ invoked' = Invoke("add_indicators", <<rows, indicators, theme_name>>)
          /\ returned' = add_indicators(CloseOnly([r \in 1 .. rows |-> r]),
                                        indicators, theme_name)
    /\ UNCHANGED <<data, call, out, raw, fixed, dl, sessionVars>>

NextFn ==
    \/ CallPrintSummary
    \/ CallPrintComparisonSummary
    \/ AnswerIntervalPro
    \/ AnswerIntervalAdvanced
    \/ CallGetIndicators
    \/ CallAddIndicators

SpecFn == InitFn /\ [][NextFn]_vars

\* -------------------------------------------- claims on the summaries
\* C18: print_comparison_summary names VOO exactly when VOO's return is
\* strictly greater and JEPI otherwise, ties included; the margin printed
\* is the winner's return minus the loser's and is never negative; +5%
\* against +3% names VOO by 2.00%.
C18_WinnerAndMargin ==
    invoked.fn = "print_comparison_summary" =>
        LET v == PeriodReturn(GetColumn(invoked.args[1], "Close"))
            j == PeriodReturn(GetColumn(invoked.args[2], "Close"))
            win == IF returned.winner = "VOO" THEN v ELSE j
            lose == IF returned.winner = "VOO" THEN j ELSE v
        IN  /\ returned.winner \in {"VOO", "JEPI"}
            /\ returned.winner = "VOO" <=> FGt(v, j)
            /\ v = j => returned.winner = "JEPI"
            /\ returned.margin = Fmt2(FSub(win, lose))
            /\ ~(returned.margin[1] = "num" /\ returned.margin[2] < 0)
            /\ ~(returned.margin[1] = "inf" /\ returned.margin[2] < 0)
            /\ (invoked.args = <<CloseOnly(ScenarioVoo), CloseOnly(ScenarioJepi)>>
                  => returned.winner = "VOO" /\ returned.margin = <<"num", 200>>)

\* C18 witness: a tie of two finite returns, which names JEPI by 0.00
C18_Witness ==
    /\ invoked.fn = "print_comparison_summary"
    /\ invoked.args = <<CloseOnly(<<1, 3>>), CloseOnly(<<1, 3>>)>>
    /\ returned.winner = "JEPI"
    /\ returned.margin = <<"num", 0>>
    /\ returned.voo_return = <<"num", 20000>>

Closes(t) == [r \in 1 .. NumRows(t) |-> t.values[r][3]]
Highs(t) == [r \in 1 .. NumRows(t) |-> t.values[r][1]]
Lows(t) == [r \in 1 .. NumRows(t) |-> t.values[r][2]]

\* the order of two printed numbers
FmtLe(a, b) == a[1] = "num" /\ b[1] = "num" /\ a[2] <= b[2]

\* C19: for a table with rows and a non-zero first close, print_summary
\* reports the last close, the largest High, the smallest Low, the return
\* (latest - first) / first * 100 and the number of rows; when every row
\* has low <= close <= high, the reported low <= latest <= high; the ten
\* closes 10 .. 40 report 300.00%, high 40 and low 10.
C19_SummaryValues ==
    invoked.fn = "print_summary" /\ Closes(invoked.args[1])[1] # 0 =>
        LET t == invoked.args[1]
            n == NumRows(t)
            c == Closes(t)
            hi == CHOOSE x \in {Highs(t)[r] : r \in 1 .. n} :
                      \A r \in 1 .. n : Highs(t)[r] <= x
            lo == CHOOSE x \in {Lows(t)[r] : r \in 1 .. n} :
                      \A r \in 1 .. n : x <= Lows(t)[r]
        IN  /\ returned.latest = <<"num", 100 * c[n]>>
            /\ returned.high = <<"num", 100 * hi>>
            /\ returned.low = <<"num", 100 * lo>>
            /\ returned.returns =
                  <<"num", RoundHalfEven(10000 * (c[n] - c[1]), c[1])>>
            /\ returned.count = n
            /\ ((\A r \in 1 .. n : Lows(t)[r] <= c[r] /\ c[r] <= Highs(t)[r])
                  => FmtLe(returned.low, returned.latest)
                     /\ FmtLe(returned.latest, returned.high))
            /\ (t = CloseOnly(ScenarioCloses)
                  => /\ returned.returns = <<"num", 30000>>
                     /\ returned.high = <<"num", 4000>>
                     /\ returned.low = <<"num", 1000>>)

\* C19 witness: the ten-close scenario, reported as 300.00%
C19_Witness ==
    /\ invoked.fn = "print_summary"
    /\ invoked.args[1] = CloseOnly(ScenarioCloses)
    /\ returned.returns = <<"num", 30000>>
    /\ returned.count = 10

\* ------------------------------------- claims on the interval prompt
FreeFormInterval ==
    /\ invoked.fn \in {"pro", "advanced"}
    /\ invoked.args[2] # ""
    /\ invoked.args[2] \notin
          (IF invoked.fn = "pro" THEN IntervalMenu ELSE AdvancedIntervalMenu)

\* C20 as stated: in stock_chart_pro.py and stock_chart_advanced.py an
\* interval answer that is neither empty nor a numbered menu choice is
\* handed to the provider verbatim.
C20_FreeFormIntervalVerbatim ==
    FreeFormInterval => returned.interval = invoked.args[2]

\* C20 amended: such an answer is handed to the provider verbatim in
\* stock_chart_advanced.py; in stock_chart_pro.py it is replaced by "1d",
\* whatever the period; an empty answer is auto-selected and a numbered
\* choice is mapped in both, and the period typed is not altered by it.
C20_FreeFormIntervalByVariant ==
    /\ FreeFormInterval =>
          returned.interval =
              IF invoked.fn = "advanced" THEN invoked.args[2] ELSE "1d"
    /\ invoked.fn \in {"pro", "advanced"} =>
          /\ returned.period = get_period(invoked.args[1])
          /\ invoked.args[2] = "" => returned.interval \in {"5m", "1h", "1d", "1wk"}
          /\ invoked.args[2] = "7" =>
                returned.interval = IF invoked.fn = "pro" THEN "1mo" ELSE "1wk"

\* C20 witness: 30m typed in stock_chart_pro.py reaches the provider as 1d
C20_Witness ==
    /\ invoked.fn = "pro"
    /\ invoked.args = <<"100d", "30m">>
    /\ returned = [period |-> "100d", interval |-> "1d"]

\* ------------------------------------------------- the chart requests
\* Config.THEMES.get(theme_name, Config.THEMES["dark"]), by theme name
apply_theme(theme_name) ==
    IF theme_name \in {"dark", "light"} THEN theme_name ELSE "dark"

\* what a request has done so far: the messages print_error showed, the
\* theme applied to the figure, the panels drawn, the file saved, whether
\* plt.show() ran, the summary printed, the screen a settings entry
\* showed, and the exception that left the function, if any
NoEffects ==
    [errors |-> <<>>, theme |-> None, panels |-> <<>>, saved |-> None,
     shown |-> FALSE, summary |-> None, screen |-> "", exception |-> None]

Panel(axis, kind, of, with) ==
    [axis |-> axis, kind |-> kind, of |-> of, with |-> with]

\* the exception raised by reading these columns of data, in this order:
\* None cannot be subscripted, and a missing column is a KeyError
FirstMissing(dataOpt, cols) ==
    IF cols = <<>> THEN None
    ELSE IF dataOpt = None THEN Some(<<"TypeError", "NoneType">>)
    ELSE LET missing == {i \in 1 .. Len(cols) : ~HasColumn(dataOpt[1], cols[i])}
         IN  IF missing = {} THEN None
             ELSE Some(<<"KeyError", cols[Min(missing)]>>)

\* a statement reading columns: it raises unless an exception already did
Check(e, dataOpt, cols) ==
    IF e.exception # None THEN e
    ELSE [e EXCEPT !.exception = FirstMissing(dataOpt, cols)]

\* a panel or overlay drawn, unless an exception has left the function
Draw(e, panel) ==
    IF e.exception # None THEN e ELSE [e EXCEPT !.panels = Append(@, panel)]

\* the columns read by plot_line_chart, plot_area_chart, plot_bar_chart
\* and plot_candlestick
StyleColumns(style) ==
    CASE style = "line" -> <<"Close">>
      [] style = "area" -> <<"Close">>
      [] style = "bar" -> <<"Close", "Open">>
      [] style = "candlestick" -> <<"Open", "High", "Low", "Close">>
      [] OTHER -> <<>>

\* if indicators: add_indicators(ax, data, indicators, theme)
Overlay(e, axis, ticker, dataOpt, indicators) ==
    IF indicators = <<>> THEN e
    ELSE Draw(Check(e, dataOpt, <<"Close">>),
              Panel(axis, "indicators", ticker, indicators))

\* plt.savefig, plt.show and the summary that end both chart functions
SaveAndShow(e, save_path) ==
    IF e.exception # None THEN e
    ELSE [e EXCEPT !.saved = save_path, !.shown = TRUE]

\* a plausible slip: the provider's message shown by the comparison too
comparison_error_text_passed(voo_error, jepi_error) ==
    IF Truthy(voo_error) THEN voo_error[1] ELSE jepi_error[1]

\* print_error("Could not download data")
comparison_error_text(voo_error, jepi_error) == "Could not download data"

\* the settings of a request, as main hands them to the chart functions,
\* and the answer typed at the confirmation
Req(stock, period, interval, style, theme, indicators, save_path, answer) ==
    [stock |-> stock, period |-> period, interval |-> interval,
     style |-> style, theme |-> theme, indicators |-> indicators,
     save_path |-> save_path, answer |-> answer]

NoReq == Req("", "", "", "", "", <<>>, None, "")

\* show_professional_chart after its download returned res = <<data, error>>
show_professional_chart(ticker, r, res) ==
    LET dataOpt == res[1]
        error == res[2]
    IN  IF Truthy(error) THEN [NoEffects EXCEPT !.errors = <<error[1]>>]
        ELSE LET e1 == [NoEffects EXCEPT !.theme = Some(apply_theme(r.theme))]
                 e2 == IF StyleColumns(r.style) = <<>> THEN e1
                       ELSE Draw(Check(e1, dataOpt, StyleColumns(r.style)),
                                 Panel("ax1", r.style, ticker, <<>>))
                 e3 == Overlay(e2, "ax1", ticker, dataOpt, r.indicators)
                 e4 == Draw(Check(e3, dataOpt, <<"Close", "Open", "Volume">>),
                            Panel("ax2", "volume", ticker, <<>>))
                 e5 == SaveAndShow(e4, r.save_path)
                 e6 == Check(e5, dataOpt, <<"Close", "High", "Low">>)
             IN  IF e6.exception # None THEN e6
                 ELSE [e6 EXCEPT !.summary = Some(print_summary(dataOpt[1]))]

\* the style the comparison draws a price panel in
comparison_style(style) == IF style = "candlestick" THEN "candlestick" ELSE "line"

\* show_comparison_chart after its two downloads returned
show_comparison_chart(r, voo_res, jepi_res) ==
    LET voo_data == voo_res[1]
        jepi_data == jepi_res[1]
        drawn == comparison_style(r.style)
    IN  IF Truthy(voo_res[2]) \/ Truthy(jepi_res[2])
        THEN [NoEffects EXCEPT
                 !.errors = <<comparison_error_text(voo_res[2], jepi_res[2])>>]
        ELSE LET e1 == [NoEffects EXCEPT !.theme = Some(apply_theme(r.theme))]
                 e2 == Draw(Check(e1, voo_data, StyleColumns(drawn)),
                            Panel("ax1", drawn, "VOO", <<>>))
                 e3 == Overlay(e2, "ax1", "VOO", voo_data, r.indicators)
                 e4 == Draw(Check(e3, jepi_data, StyleColumns(drawn)),
                            Panel("ax2", drawn, "JEPI", <<>>))
                 e5 == Overlay(e4, "ax2", "JEPI", jepi_data, r.indicators)
                 e6 == Draw(Check(Check(e5, voo_data, <<"Close">>),
                                  jepi_data, <<"Close">>),
                            Panel("ax3", "performance", "VOO vs JEPI", <<>>))
                 e7 == Draw(Check(Check(e6, voo_data, <<"Volume">>),
                                  jepi_data, <<"Volume">>),
                            Panel("ax4", "volume", "VOO vs JEPI", <<>>))
                 e8 == SaveAndShow(e7, r.save_path)
             IN  IF e8.exception # None THEN e8
                 ELSE [e8 EXCEPT !.summary =
                          Some(print_comparison_summary(voo_data[1], jepi_data[1]))]

\* a plausible slip: a second try for the same ticker
RequestTickersRetry(stock_choice) ==
    CASE stock_choice = "1" -> <<"VOO", "VOO">>
      [] stock_choice = "2" -> <<"JEPI", "JEPI">>
      [] stock_choice = "3" -> <<"VOO", "JEPI">>

\* the download_stock_data calls of a request, in the order they are made
RequestTickers(stock_choice) ==
    CASE stock_choice = "1" -> <<"VOO">>
      [] stock_choice = "2" -> <<"JEPI">>
      [] stock_choice = "3" -> <<"VOO", "JEPI">>

\* one call of download_stock_data and what yf.download answered
Fetch(ticker, period, interval, answer) ==
    [ticker |-> ticker, period |-> period, interval |-> interval,
     answer |-> answer, result |-> download_stock_data(answer)]

\* ---------------------------------------------------- main at work
\* the answers typed at the prompts
StockAnswers == {"1", "2", "3", "q", "S", "x"}
SessionPeriodAnswers == {"", "1"}
SessionIntervalAnswers == {"", "2", "30m"}
StyleAnswers == {"", "2", "3", "4"}
IndicatorAnswers == {<<"">>, <<"1", "4">>}
SaveAnswers == {<<"2", "">>, <<"1", "voo">>}
ConfirmAnswers == {"", "Y", "n"}
ThemeAnswers == {"", "1", "2", "light"}
SettingsAnswers == {"2", "3", "x"}

\* what yf.download may answer: the five columns (close in lower case),
\* a table without Volume, a table without rows, or an exception
FullLabels == <<<<"Open">>, <<"High">>, <<"Low">>, <<"close">>, <<"Volume">>>>
NoVolumeLabels == <<<<"Open">>, <<"High">>, <<"Low">>, <<"Close">>>>

ProviderAnswers ==
    {Returned(RawTable(FullLabels, MaxRows)),
     Returned(RawTable(NoVolumeLabels, MaxRows)),
     Returned(RawTable(FullLabels, 0))}
        \cup {Raised(msg) : msg \in Messages}

InitSession ==
    /\ pc = "menu"
    /\ current_theme = "dark"
    /\ req = NoReq
    /\ fetched = <<>>
    /\ effects = NoEffects
    /\ FnOff
    /\ data = Table(<<>>, <<>>, <<>>)
    /\ call = NoCall
    /\ out = None
    /\ raw = None
    /\ fixed = None
    /\ dl = None

\* stock_choice == "Q": the loop is left
Quit ==
    /\ pc = "menu"
    /\ \E c \in StockAnswers : Upper(c) = "Q"
    /\ pc' = "done"
    /\ UNCHANGED <<current_theme, req, fetched, effects>>
    /\ UNCHANGED <<data, call, out, raw, fixed, dl, fnVars>>

\* stock_choice == "S": the settings menu is entered
OpenSettings ==
    /\ pc = "menu"
    /\ \E c \in StockAnswers : Upper(c) = "S"
    /\ pc' = "settings"
    /\ UNCHANGED <<current_theme, req, fetched, effects>>
    /\ UNCHANGED <<data, call, out, raw, fixed, dl, fnVars>>

\* any other answer than 1, 2, 3: an error message, then the pause
InvalidChoice ==
    /\ pc = "menu"
    /\ \E c \in StockAnswers : Upper(c) \notin {"Q", "S", "1", "2", "3"}
    /\ effects' = [NoEffects EXCEPT !.errors = <<"Invalid choice">>]
    /\ pc' = "pause"
    /\ UNCHANGED <<current_theme, req, fetched>>
    /\ UNCHANGED <<data, call, out, raw, fixed, dl, fnVars>>

\* 1, 2 or 3: the five prompts are answered and the settings are put to
\* the user, who accepts them or not
ChooseSettings ==
    /\ pc = "menu"
    /\ \E c \in StockAnswers, p \in SessionPeriodAnswers,
          i \in SessionIntervalAnswers, s \in StyleAnswers,
          n \in IndicatorAnswers, v \in SaveAnswers, y \in ConfirmAnswers :
          /\ Upper(c) \in {"1", "2", "3"}
          /\ req' = Req(Upper(c), get_period(p), get_interval(get_period(p), i),
                         get_chart_style(s), current_theme, get_indicators(n),
                         get_save_option(v[1], v[2]), y)
          /\ pc' = IF confirm_settings(y) THEN "download" ELSE "pause"
    /\ fetched' = <<>>
    /\ effects' = NoEffects
    /\ UNCHANGED current_theme
    /\ UNCHANGED <<data, call, out, raw, fixed, dl, fnVars>>

\* the next download_stock_data call of the request
Download ==
    /\ pc = "download"
    /\ LET tickers == RequestTickers(req.stock)
           k == Len(fetched) + 1
       IN  /\ \E a \in ProviderAnswers :
                 fetched' = Append(fetched,
                                   Fetch(tickers[k], req.period, req.interval, a))
           /\ pc' = IF k = Len(tickers) THEN "chart" ELSE "download"
    /\ UNCHANGED <<current_theme, req, effects>>
    /\ UNCHANGED <<data, call, out, raw, fixed, dl, fnVars>>

\* the rest of the chart function; an exception it raises leaves main
Chart ==
    /\ pc = "chart"
    /\ effects' = IF req.stock = "3"
                  THEN show_comparison_chart(req, fetched[1].result,
                                             fetched[2].result)
                  ELSE show_professional_chart(fetched[1].ticker, req,
                                               fetched[1].result)
    /\ pc' = IF effects'.exception # None THEN "crashed" ELSE "pause"
    /\ UNCHANGED <<current_theme, req, fetched>>
    /\ UNCHANGED <<data, call, out, raw, fixed, dl, fnVars>>

\* input("Press ENTER to continue..."): back to the stock menu
PressEnter ==
    /\ pc = "pause"
    /\ pc' = "menu"
    /\ req' = NoReq
    /\ fetched' = <<>>
    /\ effects' = NoEffects
    /\ UNCHANGED current_theme
    /\ UNCHANGED <<data, call, out, raw, fixed, dl, fnVars>>

\* settings_choice == "1": current_theme = get_theme()
ChangeTheme ==
    /\ pc = "settings"
    /\ \E c \in ThemeAnswers : current_theme' = get_theme(c)
    /\ UNCHANGED <<pc, req, fetched, effects>>
    /\ UNCHANGED <<data, call, out, raw, fixed, dl, fnVars>>

\* settings_choice 2 or 3 shows dividends or the portfolio and waits for
\* ENTER; an answer the menu does not know shows the menu again
ViewSettingsEntry ==
    /\ pc = "settings"
    /\ \E c \in SettingsAnswers :
          effects' = [NoEffects EXCEPT !.screen =
                         CASE Upper(c) = "2" -> "dividends"
                           [] Upper(c) = "3" -> "portfolio"
                           [] OTHER -> effects.screen]
    /\ UNCHANGED <<pc, current_theme, req, fetched>>
    /\ UNCHANGED <<data, call, out, raw, fixed, dl, fnVars>>

\* settings_choice == "B": back to the stock menu
LeaveSettings ==
    /\ pc = "settings"
    /\ pc' = "menu"
    /\ effects' = NoEffects
    /\ UNCHANGED <<current_theme, req, fetched>>
    /\ UNCHANGED <<data, call, out, raw, fixed, dl, fnVars>>

NextSession ==
    \/ Quit
    \/ OpenSettings
    \/ InvalidChoice
    \/ ChooseSettings
    \/ Download
    \/ Chart
    \/ PressEnter
    \/ ChangeTheme
    \/ ViewSettingsEntry
    \/ LeaveSettings

SpecSession == InitSession /\ [][NextSession]_vars

\* ------------------------------------------ claims on the chart requests
\* a chart function has run to its return or to its exception
Charted == pc \in {"pause", "crashed"} /\ fetched # <<>>

Failed(f) == f.answer.kind = "raise" \/ IsEmpty(f.answer.table)

AllFetched == \A i \in 1 .. Len(fetched) : fetched[i].result[1] # None

LacksVolume ==
    \E i \in 1 .. Len(fetched) :
        /\ fetched[i].result[1] # None
        /\ ~HasColumn(fetched[i].result[1][1], "Volume")

PanelsOf(axis) ==
    {effects.panels[i] : i \in {j \in 1 .. Len(effects.panels) :
                                   effects.panels[j].axis = axis}}

\* C12: when a normalized series has no Volume column, a chart request
\* (single asset with its volume panel, or comparison) does not fail: the
\* price panel and the summary are produced and only the volume is skipped.
C12_NoVolumeStillCharts ==
    Charted /\ AllFetched /\ LacksVolume =>
        /\ effects.exception = None
        /\ pc = "pause"
        /\ PanelsOf("ax1") # {}
        /\ effects.shown
        /\ effects.summary # None

\* C13: whenever a download of the request fails (no rows, or an exception
\* with any message, the empty one too), an error is reported, nothing is
\* drawn, saved or summarised, and main goes on to the stock menu.
C13_FailureIsReported ==
    Charted /\ (\E i \in 1 .. Len(fetched) : Failed(fetched[i])) =>
        /\ effects.errors # <<>>
        /\ effects.panels = <<>>
        /\ effects.saved = None
        /\ ~effects.shown
        /\ effects.summary = None
        /\ effects.exception = None
        /\ pc = "pause"

\* C14 as stated: when the provider raises an exception with message m, the
\* error message shown is m, for a single asset and for the comparison.
C14_MessageShownIsProviders ==
    Charted =>
        \A i \in 1 .. Len(fetched) :
            fetched[i].answer.kind = "raise" =>
                \E k \in 1 .. Len(effects.errors) :
                    effects.errors[k] = fetched[i].answer.msg

\* C14 amended: download_stock_data hands the provider's message m on as
\* its error; a single-asset request shows m when m is not empty and shows
\* no message when m is empty; the comparison shows "Could not download
\* data" in place of m when one of its two errors is a non-empty text, and
\* no message otherwise.
C14_MessageShownByRequest ==
    /\ \A i \in 1 .. Len(fetched) :
          fetched[i].answer.kind = "raise" =>
              fetched[i].result = <<None, Some(fetched[i].answer.msg)>>
    /\ Charted /\ (\E i \in 1 .. Len(fetched) : fetched[i].answer.kind = "raise") =>
          IF req.stock = "3"
          THEN effects.errors =
                  IF \E i \in 1 .. 2 : Truthy(fetched[i].result[2])
                  THEN <<"Could not download data">> ELSE <<>>
          ELSE effects.errors =
                  IF fetched[1].answer.msg # ""
                  THEN <<fetched[1].answer.msg>> ELSE <<>>

\* C14 witness: a comparison whose VOO download raised "HTTP Error 404" and
\* which showed the fixed text
C14_Witness ==
    /\ Charted
    /\ req.stock = "3"
    /\ fetched[1].answer = Raised("HTTP Error 404")
    /\ fetched[2].answer.kind = "table"
    /\ effects.errors = <<"Could not download data">>
    /\ pc = "pause"

\* C15 as stated: the download runs once per ticker of the request, and a
\* failed download is never followed by another download in the request.
C15_NothingAfterFailedDownload ==
    /\ Charted => Len(fetched) = IF req.stock = "3" THEN 2 ELSE 1
    /\ \A i \in 1 .. Len(fetched) :
          Failed(fetched[i]) => i = Len(fetched)

\* C15 amended: the download runs exactly once per ticker of the request,
\* VOO or JEPI for a single asset, VOO and then JEPI for the comparison,
\* with the period and interval of the request, whether the downloads
\* succeed or fail; a failed download is never followed by another download
\* of the same ticker (in the comparison JEPI is downloaded after a failed
\* VOO download).
C15_OncePerTicker ==
    LET due == CASE req.stock = "1" -> <<"VOO">>
                 [] req.stock = "2" -> <<"JEPI">>
                 [] req.stock = "3" -> <<"VOO", "JEPI">>
                 [] OTHER -> <<>>
    IN  /\ Len(fetched) <= Len(due)
        /\ \A i \in 1 .. Len(fetched) :
              /\ fetched[i].ticker = due[i]
              /\ fetched[i].period = req.period
              /\ fetched[i].interval = req.interval
        /\ \A i, j \in 1 .. Len(fetched) :
              i # j => fetched[i].ticker # fetched[j].ticker
        /\ pc = "chart" \/ Charted => Len(fetched) = Len(due)
        /\ pc = "download" => Len(fetched) < Len(due)

\* C15 witness: a comparison whose VOO download failed and whose JEPI
\* download was made all the same
C15_Witness ==
    /\ Charted
    /\ req.stock = "3"
    /\ Failed(fetched[1])
    /\ Len(fetched) = 2
    /\ fetched[2].ticker = "JEPI"
    /\ fetched[2].answer.kind = "table"

\* C16: the theme starts as dark and is always dark or light; a chart is
\* drawn in the theme current at its request; and the theme changes only
\* in a step of the Change Theme entry of the settings menu.
C16_ThemeChangesOnlyInSettings ==
    /\ current_theme = "dark"
    /\ [](/\ current_theme \in {"dark", "light"}
          /\ effects.theme # None => effects.theme = Some(current_theme)
          /\ pc \in {"download", "chart"} => req.theme = current_theme)
    /\ [][current_theme' # current_theme =>
             pc = "settings" /\ pc' = "settings" /\ ChangeTheme]_vars

\* C16 witness: a chart shown in the light theme after the theme was changed
C16_Witness ==
    /\ Charted
    /\ effects.shown
    /\ effects.theme = Some("light")
    /\ current_theme = "light"

\* C17: in the comparison each price panel is drawn in the style selected,
\* whichever of line, area, bar and candlestick it is, with the indicators
\* on each asset's own panel.
C17_ComparisonDrawnInStyle ==
    Charted /\ req.stock = "3" /\ effects.shown =>
        /\ PanelsOf("ax1") \cap {q \in PanelsOf("ax1") : q.kind # "indicators"}
              = {Panel("ax1", req.style, "VOO", <<>>)}
        /\ PanelsOf("ax2") \cap {q \in PanelsOf("ax2") : q.kind # "indicators"}
              = {Panel("ax2", req.style, "JEPI", <<>>)}
        /\ req.indicators # <<>> =>
              /\ Panel("ax1", "indicators", "VOO", req.indicators) \in PanelsOf("ax1")
              /\ Panel("ax2", "indicators", "JEPI", req.indicators) \in PanelsOf("ax2")

\* ------------------------------------ further claims on the normalizer
\* C26: fix_dataframe_columns applied to its own output returns a table
\* with the same column names, rows and values as the first application,
\* for empty, flat and two-level tables with any mix of exact, differently
\* cased and missing required columns.
C26_FixIsIdempotent ==
    Len(fixed) = 2 =>
        /\ fixed[2].columns = fixed[1].columns
        /\ fixed[2].index = fixed[1].index
        /\ fixed[2].values = fixed[1].values

\* C26 witness: (close, VOO), (CLOSE, VOO), (Open, VOO) with a row comes
\* back as Close, CLOSE, Open, and so does Close, CLOSE, Open
C26_Witness ==
    /\ Len(fixed) = 2
    /\ raw.table.columns = <<<<"close", "VOO">>, <<"CLOSE", "VOO">>, <<"Open", "VOO">>>>
    /\ NumRows(raw.table) = 1
    /\ fixed[1].columns = <<<<"Close">>, <<"CLOSE">>, <<"Open">>>>
    /\ fixed[2] = fixed[1]

\* --------------------------------------------- a further claim on RSI
\* the rises (sign 1) or falls (sign -1) of the closes j-1 -> j summed
\* over the positions lo .. hi that have a predecessor
RECURSIVE MoveSum(_, _, _)
MoveSum(sign, lo, hi) ==
    IF lo > hi THEN 0
    ELSE MoveSum(sign, lo, hi - 1) +
         (IF hi > 1 THEN Max0(sign * (ClosePrices[hi] - ClosePrices[hi - 1]))
          ELSE 0)

\* C24: in calculate_rsi the missing delta of the first close counts as
\* zero gain and zero loss: the first point with a full window is index
\* window-1 (position window, counted from 1), where the averages are the
\* sum of the window-1 real deltas divided by window; the averages are
\* defined at exactly max(0, L - window + 1) points, and RSI there is the
\* value computed from these averages.
C24_FirstDeltaCountsAsZero ==
    call.fn = "rsi" =>
        LET L == NumRows(data)
            w == call.window
            gain == average_gain(data, w)
            loss == average_loss(data, w)
        IN  /\ NumDefined(gain) = Max0(L - w + 1)
            /\ NumDefined(loss) = Max0(L - w + 1)
            /\ \A i \in 1 .. L :
                  IF i < w
                  THEN IsNaN(gain[i]) /\ IsNaN(loss[i]) /\ IsNaN(out[1][i])
                  ELSE /\ gain[i] = Fin(Q(MoveSum(1, i - w + 1, i), w))
                       /\ loss[i] = Fin(Q(MoveSum(-1, i - w + 1, i), w))
                       /\ out[1][i] =
                             FSub(Float(100),
                                  FDiv(Float(100),
                                       FAdd(Float(1), FDiv(gain[i], loss[i]))))

\* C24 witness: closes 1, 3, 2 with window 3: the one full window is at
\* the last point, with average gain 2/3 and average loss 1/3, RSI 200/3
C24_Witness ==
    /\ call.fn = "rsi"
    /\ call.window = 3
    /\ ClosePrices = <<1, 3, 2>>
    /\ average_gain(data, 3)[3] = Fin(Q(2, 3))
    /\ average_loss(data, 3)[3] = Fin(Q(1, 3))
    /\ out[1][3] = Fin(Q(200, 3))

\* ------------------------------------------- claims on the indicators
\* C22: whatever is typed at the indicator prompt, get_indicators returns
\* a set over sma20, sma50, ema20, bb: every element is one of the four
\* and none occurs more than once.
C22_IndicatorsAreASet ==
    invoked.fn = "get_indicators" =>
        /\ \A i \in 1 .. Len(returned) : returned[i] \in IndicatorNames
        /\ \A i, j \in 1 .. Len(returned) : i # j => returned[i] # returned[j]

\* the artists of entry p alone, the moving averages before p counted
OverlaysOf(indicators, p, points, theme_name) ==
    LET k == Cardinality({q \in 1 .. (p - 1) : indicators[q] \in MovingAverages})
        rotation == <<"#ff9f43", "#ee5a24", "#5f27cd", "#10ac84">>
        accent == IF theme_name = "light" THEN "#e74c3c" ELSE "#ff6b6b"
    IN  IF indicators[p] = "bb"
        THEN <<Artist("plot", "BB Upper", points, accent, ":"),
               Artist("plot", "BB Lower", points, accent, ":"),
               Artist("fill_between", "", points, accent, "")>>
        ELSE <<Artist("plot", ma_label(indicators[p]), points,
                      rotation[(k % 4) + 1], ma_linestyle(indicators[p]))>>

RECURSIVE OverlaysUpTo(_, _, _, _)
OverlaysUpTo(indicators, p, points, theme_name) ==
    IF p = 0 THEN <<>>
    ELSE OverlaysUpTo(indicators, p - 1, points, theme_name)
         \o OverlaysOf(indicators, p, points, theme_name)

\* C23: the k-th moving-average entry of the list (k from 0) is drawn in
\* rotation colour k mod 4; Bollinger Bands are drawn as upper, lower and
\* a shaded region in the theme's accent colour and do not advance the
\* rotation; the colours depend on the list and the theme alone, not on
\* the table drawn.
C23_OverlayColours ==
    invoked.fn = "add_indicators" =>
        LET rows == invoked.args[1]
            indicators == invoked.args[2]
            theme_name == invoked.args[3]
            other == add_indicators(CloseOnly([r \in 1 .. (3 - rows) |-> 7]),
                                    indicators, theme_name)
        IN  /\ returned = OverlaysUpTo(indicators, Len(indicators), rows, theme_name)
            /\ Len(other) = Len(returned)
            /\ \A i \in 1 .. Len(returned) : other[i].color = returned[i].color

\* C23 witness: five moving averages around a Bollinger entry: the fifth
\* is drawn in the first rotation colour again
C23_Witness ==
    /\ invoked.fn = "add_indicators"
    /\ invoked.args[2] = <<"sma20", "bb", "sma50", "ema20", "sma20">>
    /\ invoked.args[3] = "light"
    /\ Len(returned) = 7
    /\ returned[1].color = "#ff9f43"
    /\ returned[2].color = "#e74c3c"
    /\ returned[5].color = "#ee5a24"
    /\ returned[7].color = "#10ac84"

\* ------------------------------------------- claims on the menu loop
\* the confirmation was answered by nothing, y or yes, in any letter case
Accepted == req.answer \in {"", "y", "Y", "yes", "Yes", "YES"}

NothingDone ==
    /\ fetched = <<>>
    /\ effects.panels = <<>>
    /\ ~effects.shown
    /\ effects.saved = None
    /\ effects.summary = None

\* C25: a stock-menu answer outside 1, 2, 3, Q, S, and a confirmation
\* answered by anything but nothing, y or yes, lead to no download, no
\* chart and no image file in that turn of the loop, a save filename
\* entered before notwithstanding; main waits for ENTER and no download is
\* ever made for settings that were not accepted.
C25_NoFetchWithoutConsent ==
    /\ effects.errors = <<"Invalid choice">> => pc = "pause" /\ NothingDone
    /\ req # NoReq /\ ~Accepted => pc = "pause" /\ NothingDone /\ effects = NoEffects
    /\ fetched # <<>> \/ pc \in {"download", "chart"} =>
          Accepted /\ req.stock \in {"1", "2", "3"}

\* C25 witness: settings with a save filename, rejected by "n"
C25_Witness ==
    /\ pc = "pause"
    /\ req.answer = "n"
    /\ req.save_path = Some("voo")
    /\ req.stock = "3"
    /\ NothingDone

\* C21: the loop of main ends only by Q (in any letter case) at the stock
\* menu, and then without a download; a request that was confirmed comes
\* back from its chart function to the pause, and the pause, an invalid
\* choice, a rejected confirmation and the settings menu lead back to the
\* stock menu.
C21_EndsOnlyOnQuit ==
    /\ [](pc \in {"menu", "settings", "download", "chart", "pause", "done"})
    /\ [](pc = "done" => fetched = <<>>)
    /\ [][pc' = "done" => pc = "menu" /\ Quit]_vars
    /\ [][pc = "chart" => pc' = "pause"]_vars
    /\ [][pc = "pause" => pc' = "menu"]_vars
    /\ [][pc = "settings" => pc' \in {"settings", "menu"}]_vars

====
